---- MODULE Spec2Model ----
(***************************************************************************)
(* deps-go: the response-unpacking and client-construction layer of        *)
(* src/client.go (package depsclient, lines 186-448).                      *)
(*                                                                         *)
(* Three specifications share the module:                                  *)
(*   SpecUnpack  unpackResponse as a pure function over bounded inputs     *)
(*   SpecNew     NewClient over bounded option lists                       *)
(*   Spec        NewClient followed by Service Facade calls                *)
(*   SpecConc    several callers' facade calls on one Client, interleaved  *)
(*   SpecOwn     NewClient, then the caller changes its own http.Client    *)
(***************************************************************************)
EXTENDS Integers, Sequences, FiniteSets, TLC

VARIABLES
    upc, uin, uout,          \* unpackResponse harness: position, arguments, return
    pc, apiKey, opts, nc,    \* NewClient: position, arguments, return and trace
    heap,                    \* the caller's own *http.Client objects, by address
    calls, wire              \* Service Facade calls per caller; headers seen by the transport

vars == <<upc, uin, uout, pc, apiKey, opts, nc, heap, calls, wire>>

(***************************************************************************)
(* Bounds                                                                  *)
(***************************************************************************)
Margin == 2          \* status codes examined on each side of a boundary
MaxOpts == 3         \* longest option list given to NewClient in SpecNew
MaxCallOpts == 2     \* longest option list given to NewClient in Spec
NumCallers == 2      \* callers sharing one Client in SpecConc
MaxOwnOpts == 2      \* longest option list given to NewClient in SpecOwn

(***************************************************************************)
(* Go values                                                               *)
(***************************************************************************)
NilPtr == "nil"                         \* a nil *T
Bodies == {"v1", "v2"}                  \* non-nil decoded bodies
NoErr == [id |-> "nil"]                 \* a nil error
NilResp == [id |-> "nil"]               \* a nil *http.Response

\* var ErrNotFound = errors.New("not found")
ErrNotFound == [id |-> "ErrNotFound", msg |-> <<"not found">>, cause |-> NoErr]

\* Errors the Endpoint Client or an option can report.  errTwin has the
\* sentinel's text but is another value; errCanceled is context.Canceled.
errDial == [id |-> "errDial", msg |-> <<"dial tcp: refused">>, cause |-> NoErr]
errCanceled == [id |-> "context.Canceled", msg |-> <<"context canceled">>, cause |-> NoErr]
errTwin == [id |-> "errTwin", msg |-> <<"not found">>, cause |-> NoErr]
TransportErrs == {errDial, errCanceled, errTwin}
errOpt == [id |-> "errOpt", msg |-> <<"bad option">>, cause |-> NoErr]
OptionErrs == {errOpt, errTwin}
errGen == [id |-> "errGen", msg |-> <<"bad server">>, cause |-> NoErr]

\* fmt.Errorf(prefix + "%w", err): a new error whose Unwrap is err.
ErrorfW(prefix, err) ==
    [id |-> "fmt.wrapError", msg |-> <<prefix>> \o err.msg, cause |-> err]

\* fmt.Errorf(prefix + "%s", s): a new error with no cause.
ErrorfS(prefix, s) ==
    [id |-> "fmt.errorString", msg |-> <<prefix, s>>, cause |-> NoErr]

\* errors.Unwrap
Unwrap(err) == IF err = NoErr THEN NoErr ELSE err.cause

\* errors.Is: err or an error in its Unwrap chain is target.
RECURSIVE ErrorsIs(_, _)
ErrorsIs(err, target) ==
    IF err = NoErr THEN FALSE
    ELSE IF err = target THEN TRUE
    ELSE ErrorsIs(Unwrap(err), target)

\* strings.Contains(err.Error(), s), for s one of the pieces the message is built of
MsgContains(err, s) == \E i \in 1..Len(err.msg) : err.msg[i] = s

(***************************************************************************)
(* net/http                                                                *)
(***************************************************************************)
StatusNotFound == 404
StatusOK == 200
StatusMultipleChoices == 300

StatusTexts == {"", "500 Internal Server Error"}   \* http.Response.Status, free text
StatusCodes ==
    ((StatusOK - Margin) .. (StatusOK + Margin))
        \cup ((StatusMultipleChoices - Margin) .. (StatusMultipleChoices + Margin))
        \cup ((StatusNotFound - Margin) .. (StatusNotFound + Margin))
        \cup {500}
Resps == [StatusCode : StatusCodes, Status : StatusTexts]

(***************************************************************************)
(* unpackResponse                                                          *)
(***************************************************************************)
Ret(v, e) == [val |-> v, err |-> e, panic |-> FALSE]
Panic == [val |-> NilPtr, err |-> NoErr, panic |-> TRUE]   \* nil pointer dereference
NoRet == [val |-> NilPtr, err |-> NoErr, panic |-> FALSE, pending |-> TRUE]

\* Variants of unpackResponse, each with one plausible slip.
\* the 404 rule tried before the transport error
unpackStatusFirst(responseBody, httpResponse, err) ==
    IF httpResponse # NilResp /\ httpResponse.StatusCode = StatusNotFound
    THEN Ret(NilPtr, ErrNotFound)
    ELSE IF err # NoErr
    THEN Ret(NilPtr, ErrorfW("client execution error: ", err))
    ELSE IF httpResponse = NilResp
    THEN Panic
    ELSE IF httpResponse.StatusCode < StatusOK
            \/ httpResponse.StatusCode >= StatusMultipleChoices
    THEN Ret(NilPtr, ErrorfS("api error: status ", httpResponse.Status))
    ELSE IF responseBody = NilPtr
    THEN Ret(NilPtr, ErrNotFound)
    ELSE Ret(responseBody, NoErr)

\* no 404 rule: a 404 is one more status error
unpackNo404(responseBody, httpResponse, err) ==
    IF err # NoErr
    THEN Ret(NilPtr, ErrorfW("client execution error: ", err))
    ELSE IF httpResponse = NilResp
    THEN Panic
    ELSE IF httpResponse.StatusCode < StatusOK
            \/ httpResponse.StatusCode >= StatusMultipleChoices
    THEN Ret(NilPtr, ErrorfS("api error: status ", httpResponse.Status))
    ELSE IF responseBody = NilPtr
    THEN Ret(NilPtr, ErrNotFound)
    ELSE Ret(responseBody, NoErr)

\* no nil-body rule: the body is returned as it is
unpackNoNilBody(responseBody, httpResponse, err) ==
    IF err # NoErr
    THEN Ret(NilPtr, ErrorfW("client execution error: ", err))
    ELSE IF httpResponse = NilResp
    THEN Panic
    ELSE IF httpResponse.StatusCode = StatusNotFound
    THEN Ret(NilPtr, ErrNotFound)
    ELSE IF httpResponse.StatusCode < StatusOK
            \/ httpResponse.StatusCode >= StatusMultipleChoices
    THEN Ret(NilPtr, ErrorfS("api error: status ", httpResponse.Status))
    ELSE Ret(responseBody, NoErr)

\* success is status 200 alone
unpackOnly200(responseBody, httpResponse, err) ==
    IF err # NoErr
    THEN Ret(NilPtr, ErrorfW("client execution error: ", err))
    ELSE IF httpResponse = NilResp
    THEN Panic
    ELSE IF httpResponse.StatusCode = StatusNotFound
    THEN Ret(NilPtr, ErrNotFound)
    ELSE IF httpResponse.StatusCode # StatusOK
    THEN Ret(NilPtr, ErrorfS("api error: status ", httpResponse.Status))
    ELSE IF responseBody = NilPtr
    THEN Ret(NilPtr, ErrNotFound)
    ELSE Ret(responseBody, NoErr)

\* every 4xx status reported as not found
unpack4xxNotFound(responseBody, httpResponse, err) ==
    IF err # NoErr
    THEN Ret(NilPtr, ErrorfW("client execution error: ", err))
    ELSE IF httpResponse = NilResp
    THEN Panic
    ELSE IF httpResponse.StatusCode \div 100 = StatusNotFound \div 100
    THEN Ret(NilPtr, ErrNotFound)
    ELSE IF httpResponse.StatusCode < StatusOK
            \/ httpResponse.StatusCode >= StatusMultipleChoices
    THEN Ret(NilPtr, ErrorfS("api error: status ", httpResponse.Status))
    ELSE IF responseBody = NilPtr
    THEN Ret(NilPtr, ErrNotFound)
    ELSE Ret(responseBody, NoErr)

unpackResponse(responseBody, httpResponse, err) ==
    IF err # NoErr
    THEN Ret(NilPtr, ErrorfW("client execution error: ", err))
    ELSE IF httpResponse = NilResp
    THEN Panic
    ELSE IF httpResponse.StatusCode = StatusNotFound
    THEN Ret(NilPtr, ErrNotFound)
    ELSE IF httpResponse.StatusCode < StatusOK
            \/ httpResponse.StatusCode >= StatusMultipleChoices
    THEN Ret(NilPtr, ErrorfS("api error: status ", httpResponse.Status))
    ELSE IF responseBody = NilPtr
    THEN Ret(NilPtr, ErrNotFound)
    ELSE Ret(responseBody, NoErr)

(***************************************************************************)
(* Options                                                                 *)
(***************************************************************************)
defaultBaseURL == "https://api.depscian.tech/v2"
apiKeyHeader == "X-API-Key"
DefaultTimeout == 30                    \* seconds
DefaultTransport == "nil"               \* http.Client.Transport left nil

Keys == {"key1", "key2"}
URLs == {"http://a", "http://b"}
Timeouts == {5, 9}
CustomPtrs == {"c1", "c2"}
CustomHeap ==
    [c \in CustomPtrs |->
        IF c = "c1" THEN [Timeout |-> 0, Transport |-> "stub1"]
        ELSE [Timeout |-> 7, Transport |-> "stub2"]]

\* An Option is a func(*http.Client, *string) error; the three constructors of
\* the package, and a caller-written option that reports an error.
Options ==
    [kind : {"WithBaseURL"}, url : URLs]
        \cup [kind : {"WithTimeout"}, timeout : Timeouts]
        \cup [kind : {"WithHTTPClient"}, customClient : CustomPtrs \cup {NilPtr}]
        \cup [kind : {"Failing"}, err : OptionErrs]

RECURSIVE SeqsUpTo(_, _)
SeqsUpTo(S, n) ==
    IF n = 0 THEN {<<>>}
    ELSE LET shorter == SeqsUpTo(S, n - 1)
         IN shorter \cup {Append(s, x) : s \in {t \in shorter : Len(t) = n - 1}, x \in S}

\* The configuration an option works on: *httpClient and *baseURL, with the
\* error it reports (or the panic it raises), and the caller's own clients,
\* which an option holding a pointer to one can reach.
Cfg(h, u, hp) ==
    [httpClient |-> h, baseURL |-> u, err |-> NoErr, panic |-> FALSE, heap |-> hp]

WithBaseURL(url, cfg) == [cfg EXCEPT !.baseURL = url]

WithTimeout(timeout, cfg) == [cfg EXCEPT !.httpClient.Timeout = timeout]

\* Variant of WithHTTPClient: only the transport is taken from the caller's
\* client, a timeout set earlier is kept.
WithHTTPClientMerge(customClient, hp, cfg) ==
    IF customClient = NilPtr
    THEN [cfg EXCEPT !.panic = TRUE]
    ELSE [cfg EXCEPT !.httpClient.Transport = hp[customClient].Transport]

\* Variant of WithHTTPClient: the assignment runs the other way,
\* *customClient = *c.
WithHTTPClientReversed(customClient, hp, cfg) ==
    IF customClient = NilPtr
    THEN [cfg EXCEPT !.panic = TRUE]
    ELSE [cfg EXCEPT !.heap[customClient] = cfg.httpClient]

\* *c = *customClient: every field of the caller's client is copied over c.
WithHTTPClient(customClient, hp, cfg) ==
    IF customClient = NilPtr
    THEN [cfg EXCEPT !.panic = TRUE]
    ELSE [cfg EXCEPT !.httpClient = hp[customClient]]

ApplyOption(opt, hp, cfg) ==
    CASE opt.kind = "WithBaseURL" -> WithBaseURL(opt.url, cfg)
      [] opt.kind = "WithTimeout" -> WithTimeout(opt.timeout, cfg)
      [] opt.kind = "WithHTTPClient" -> WithHTTPClient(opt.customClient, hp, cfg)
      [] opt.kind = "Failing" -> [cfg EXCEPT !.err = opt.err]

\* Variant of the option loop: an option's error is remembered and the
\* remaining options still run.
RECURSIVE ApplyOptsNoAbort(_, _, _, _, _)
ApplyOptsNoAbort(os, i, hp, cfg, invoked) ==
    IF i > Len(os)
    THEN [cfg |-> cfg, invoked |-> invoked]
    ELSE LET next == ApplyOption(os[i], hp, [cfg EXCEPT !.err = NoErr])
             kept == IF cfg.err # NoErr THEN [next EXCEPT !.err = cfg.err] ELSE next
         IN IF next.panic
            THEN [cfg |-> kept, invoked |-> Append(invoked, i)]
            ELSE ApplyOptsNoAbort(os, i + 1, hp, kept, Append(invoked, i))

\* for _, opt := range opts: the options are invoked in order until one
\* reports an error (or panics); invoked lists the positions that ran.
RECURSIVE ApplyOpts(_, _, _, _, _)
ApplyOpts(os, i, hp, cfg, invoked) ==
    IF i > Len(os)
    THEN [cfg |-> cfg, invoked |-> invoked]
    ELSE LET next == ApplyOption(os[i], hp, cfg)
         IN IF next.panic \/ next.err # NoErr
            THEN [cfg |-> next, invoked |-> Append(invoked, i)]
            ELSE ApplyOpts(os, i + 1, hp, next, Append(invoked, i))

(***************************************************************************)
(* Request decorator and the generated Endpoint Client                     *)
(***************************************************************************)
HeaderNames == {apiKeyHeader, "Accept"}
HeaderSet(h, k, v) == [h EXCEPT ![k] = <<v>>]          \* http.Header.Set
HeaderGet(h, k) == IF h[k] = <<>> THEN "" ELSE h[k][1]  \* http.Header.Get

HeaderAdd(h, k, v) == [h EXCEPT ![k] = Append(@, v)]     \* http.Header.Add

\* Variant of authInterceptor: the key is added to the header, not set.
authInterceptorAdd(key, req) ==
    [req EXCEPT !.Header = HeaderAdd(req.Header, apiKeyHeader, key)]

\* authInterceptor, closed over NewClient's apiKey
authInterceptor(key, req) == [req EXCEPT !.Header = HeaderSet(req.Header, apiKeyHeader, key)]

\* apiclient.NewClientWithResponses(server, WithHTTPClient(c), WithRequestEditorFn(f))
NewClientWithResponses(server, httpClient, editors, genErr) ==
    IF genErr # NoErr
    THEN [client |-> NilResp, err |-> genErr]
    ELSE [client |-> [Server |-> server, Client |-> httpClient, RequestEditors |-> editors],
          err |-> NoErr]

\* The generated client runs its request editors, in order, on every request
\* it builds, then hands the request to its HTTP client.
RECURSIVE ApplyEditors(_, _, _)
ApplyEditors(editors, i, req) ==
    IF i > Len(editors) THEN req
    ELSE ApplyEditors(editors, i + 1, authInterceptor(editors[i].apiKey, req))

(***************************************************************************)
(* NewClient                                                               *)
(***************************************************************************)
Facades == {"Admins", "Families", "Fractions", "Ghetto", "Leadership",
            "Map", "Online", "Player", "Sobes", "Status"}
NilClient == [id |-> "nil"]

\* c := &Client{internalClient: generatedClient}; c.common.client = c; every
\* facade field is &c.common converted to the facade's type.
MakeClient(generatedClient) ==
    [internalClient |-> generatedClient,
     common |-> [client |-> "c"],
     services |-> [f \in Facades |-> "&c.common"]]

NewClientFn(key, os, hp, genErr) ==
    LET httpClient == [Timeout |-> DefaultTimeout, Transport |-> DefaultTransport]
        loop == ApplyOpts(os, 1, hp, Cfg(httpClient, defaultBaseURL, hp), <<>>)
        cfg == loop.cfg
        gen == NewClientWithResponses(cfg.baseURL, cfg.httpClient,
                                      <<[fn |-> "authInterceptor", apiKey |-> key]>>, genErr)
        base == [client |-> NilClient, err |-> NoErr, panic |-> FALSE,
                 invoked |-> loop.invoked, genCalls |-> 0, cfg |-> cfg,
                 heap |-> cfg.heap]
    IN IF cfg.panic
       THEN [base EXCEPT !.panic = TRUE]
       ELSE IF cfg.err # NoErr
       THEN [base EXCEPT !.err = ErrorfW("failed to apply option: ", cfg.err)]
       ELSE IF gen.err # NoErr
       THEN [base EXCEPT !.err = ErrorfW("failed to create API client: ", gen.err),
                         !.genCalls = 1]
       ELSE [base EXCEPT !.client = MakeClient(gen.client), !.genCalls = 1]

NotCalled == [id |-> "not called"]

NewClient ==
    /\ pc = "start"
    /\ \E genErr \in {NoErr, errGen} : nc' = NewClientFn(apiKey, opts, heap, genErr)
    /\ heap' = nc'.heap
    /\ pc' = "returned"
    /\ UNCHANGED <<upc, uin, uout, apiKey, opts, calls, wire>>

\* After NewClient returned, the caller stores a new timeout or a new
\* transport in one of its own clients.
MutateCustom(c) ==
    /\ pc = "returned"
    /\ \/ heap' = [heap EXCEPT ![c].Timeout = 1]
       \/ heap' = [heap EXCEPT ![c].Transport = "other"]
    /\ UNCHANGED <<upc, uin, uout, pc, apiKey, opts, nc, calls, wire>>

(***************************************************************************)
(* Service Facade                                                          *)
(***************************************************************************)
\* The thirteen facade methods and the Endpoint Client operation each invokes.
Methods ==
    {<<"Admins", "Get", "GetServerAdminsV2AdminsGet">>,
     <<"Families", "List", "GetFamiliesV2FamiliesGet">>,
     <<"Families", "Get", "GetFamilyV2FamilyGet">>,
     <<"Fractions", "List", "GetFractionsListV2FractionsGet">>,
     <<"Fractions", "GetMembers", "GetFractionMembersV2FractionGet">>,
     <<"Ghetto", "Get", "GetGhettoListV2GhettoGet">>,
     <<"Leadership", "GetLeaders", "GetLeadersListV2LeadersGet">>,
     <<"Leadership", "GetSubleaders", "GetSubleadersListV2SubleadersGet">>,
     <<"Map", "Get", "GetPropertyMapWithPoiV2MapGet">>,
     <<"Online", "Get", "GetOnlineListV2OnlineGet">>,
     <<"Player", "Find", "FindPlayerV2PlayerFindGet">>,
     <<"Sobes", "Get", "GetSobesListV2SobesGet">>,
     <<"Status", "Get", "GetStatusV2StatusGet">>}

Callers == {"caller"}

\* What an Endpoint Client operation can return: (nil, e) for a transport
\* error e, or an envelope with a nilable JSON200 and the raw HTTP response.
CallStatusCodes ==
    {StatusOK, StatusMultipleChoices - 1, StatusMultipleChoices, StatusNotFound,
     500}
Envelopes ==
    [JSON200 : Bodies \cup {NilPtr},
     HTTPResponse : [StatusCode : CallStatusCodes, Status : StatusTexts]]
Outcomes ==
    [resp : {NilResp}, err : TransportErrs] \cup [resp : Envelopes, err : {NoErr}]

\* Variant of a facade method: the envelope's body is handed back without
\* unpacking.
FacadeReturnRaw(resp, err) ==
    IF err # NoErr
    THEN Ret(NilPtr, err)
    ELSE Ret(resp.JSON200, NoErr)

\* resp, err := s.client.internalClient.<Op>WithResponse(ctx, params)
\* if err != nil { return nil, err }
\* return unpackResponse(resp.JSON200, resp.HTTPResponse, err)
FacadeReturn(resp, err) ==
    IF err # NoErr
    THEN Ret(NilPtr, err)
    ELSE unpackResponse(resp.JSON200, resp.HTTPResponse, err)

\* Requests as the generated client builds them, before its editors run: the
\* auth header absent, or already holding some other value.
BuiltHeaders ==
    {[k \in HeaderNames |-> IF k = apiKeyHeader THEN v ELSE <<"application/json">>] :
        v \in {<<>>, <<"stale">>}}

Idle == [pc |-> "idle"]

\* A facade method up to the point where the request is on the wire.
FacadeCall(p, m) ==
    /\ pc = "returned"
    /\ nc.client # NilClient
    /\ calls[p].pc \in {"idle", "returned"}
    /\ \E h \in BuiltHeaders :
          LET gen == nc.client.internalClient
              built == [op |-> m[3], server |-> gen.Server, Header |-> h]
              req == ApplyEditors(gen.RequestEditors, 1, built)
          IN /\ calls' = [calls EXCEPT ![p] =
                    [pc |-> "inflight", method |-> m, built |-> built, req |-> req,
                     requests |-> 1]]
             /\ wire' = wire \cup {req.Header[apiKeyHeader]}
    /\ UNCHANGED <<upc, uin, uout, pc, apiKey, opts, nc, heap>>

\* Variant of the return step: the envelope is kept in a slot shared by the
\* callers, so a call may unpack the envelope another call left there.
EndpointReturnsShared(p) ==
    /\ calls[p].pc = "inflight"
    /\ \E out \in Outcomes :
          LET others == {q \in DOMAIN calls \ {p} : calls[q].pc = "returned"}
              slot == IF others = {} THEN out ELSE calls[CHOOSE q \in others : TRUE].out
          IN calls' = [calls EXCEPT ![p] =
                [pc |-> "returned", method |-> calls[p].method, built |-> calls[p].built,
                 req |-> calls[p].req, requests |-> calls[p].requests,
                 out |-> out, ret |-> FacadeReturn(slot.resp, slot.err)]]
    /\ UNCHANGED <<upc, uin, uout, pc, apiKey, opts, nc, heap, wire>>

\* The Endpoint Client operation returns and the facade method returns.
EndpointReturns(p) ==
    /\ calls[p].pc = "inflight"
    /\ \E out \in Outcomes :
          calls' = [calls EXCEPT ![p] =
              [pc |-> "returned", method |-> calls[p].method, built |-> calls[p].built,
               req |-> calls[p].req, requests |-> calls[p].requests,
               out |-> out, ret |-> FacadeReturn(out.resp, out.err)]]
    /\ UNCHANGED <<upc, uin, uout, pc, apiKey, opts, nc, heap, wire>>

(***************************************************************************)
(* unpackResponse applied to arbitrary arguments                           *)
(***************************************************************************)
UnpackInputs ==
    [responseBody : Bodies \cup {NilPtr},
     httpResponse : Resps \cup {NilResp},
     err : TransportErrs \cup {NoErr}]

CallUnpack ==
    /\ upc = "ready"
    /\ uout' = unpackResponse(uin.responseBody, uin.httpResponse, uin.err)
    /\ upc' = "returned"
    /\ UNCHANGED <<uin, pc, apiKey, opts, nc, heap, calls, wire>>

(***************************************************************************)
(* Specifications                                                          *)
(***************************************************************************)
UnpackIdle ==
    /\ upc = "unused"
    /\ uin = [responseBody |-> NilPtr, httpResponse |-> NilResp, err |-> NoErr]
    /\ uout = NoRet

NewClientReady(maxOpts) ==
    /\ pc = "start"
    /\ apiKey \in Keys
    /\ opts \in SeqsUpTo(Options, maxOpts)
    /\ nc = NotCalled
    /\ heap = CustomHeap
    /\ calls = [p \in Callers |-> Idle]
    /\ wire = {}

InitUnpack ==
    /\ upc = "ready"
    /\ uin \in UnpackInputs
    /\ uout = NoRet
    /\ pc = "unused"
    /\ apiKey = "key1"
    /\ opts = <<>>
    /\ nc = NotCalled
    /\ heap = CustomHeap
    /\ calls = [p \in Callers |-> Idle]
    /\ wire = {}

NextUnpack == CallUnpack
SpecUnpack == InitUnpack /\ [][NextUnpack]_vars

InitNew == UnpackIdle /\ NewClientReady(MaxOpts)
NextNew == NewClient
SpecNew == InitNew /\ [][NextNew]_vars

\* Several callers on one Client.  Each call draws its method from all
\* thirteen and its outcome from a transport error, a body and no body.
ConcCallers == 1..NumCallers
ConcOptLists ==
    {<<[kind |-> "WithBaseURL", url |-> "http://a"],
       [kind |-> "WithHTTPClient", customClient |-> "c2"]>>}
ConcOutcomes ==
    {out \in Outcomes :
        \/ out.err = errCanceled
        \/ /\ out.err = NoErr
           /\ out.resp.HTTPResponse.Status = ""
           /\ out.resp.HTTPResponse.StatusCode = StatusOK
           /\ out.resp.JSON200 \in {NilPtr, "v1"}}

InitConc ==
    /\ UnpackIdle
    /\ pc = "start"
    /\ apiKey = "key1"
    /\ opts \in ConcOptLists
    /\ nc = NotCalled
    /\ heap = CustomHeap
    /\ calls = [p \in ConcCallers |-> Idle]
    /\ wire = {}
NextConc ==
    \/ NewClient
    \/ \E p \in ConcCallers, m \in Methods :
          FacadeCall(p, m) /\ calls'[p].built.Header[apiKeyHeader] = <<>>
    \/ \E p \in ConcCallers :
          EndpointReturns(p) /\ calls'[p].out \in ConcOutcomes
SpecConc == InitConc /\ [][NextConc]_vars

InitOwn == UnpackIdle /\ NewClientReady(MaxOwnOpts)
NextOwn ==
    \/ NewClient
    \/ \E c \in CustomPtrs : MutateCustom(c)
SpecOwn == InitOwn /\ [][NextOwn]_vars

Init == UnpackIdle /\ NewClientReady(MaxCallOpts)
Next ==
    \/ NewClient
    \/ \E p \in Callers, m \in Methods : FacadeCall(p, m)
    \/ \E p \in Callers : EndpointReturns(p)
Spec == Init /\ [][Next]_vars

(***************************************************************************)
(* unpackResponse: properties                                              *)
(***************************************************************************)
Unpacked == upc = "returned"
HasResp == uin.httpResponse # NilResp
Is2xx(code) == code >= StatusOK /\ code < StatusMultipleChoices

\* C1: with a non-nil transport error e, unpackResponse returns (nil, err)
\* where Unwrap(err) is e and err's text carries "client execution error",
\* whatever the body and the response (absent, 404, 2xx) are.
C1_TransportErrorWrapped ==
    (Unpacked /\ uin.err # NoErr) =>
        /\ ~uout.panic
        /\ uout.val = NilPtr
        /\ uout.err # NoErr
        /\ Unwrap(uout.err) = uin.err
        /\ uout.err.msg[1] = "client execution error: "

C1_Witness ==
    /\ Unpacked /\ uin.err = errCanceled
    /\ HasResp /\ uin.httpResponse.StatusCode = StatusNotFound
    /\ uin.responseBody \in Bodies
    /\ Unwrap(uout.err) = errCanceled

\* C2: with a nil transport error and status 404, unpackResponse returns
\* (nil, ErrNotFound), the sentinel itself, whatever the body is.
C2_NotFoundOn404 ==
    (Unpacked /\ uin.err = NoErr /\ HasResp
        /\ uin.httpResponse.StatusCode = StatusNotFound) =>
        uout = Ret(NilPtr, ErrNotFound)

C2_Witness ==
    /\ Unpacked /\ uin.err = NoErr /\ HasResp
    /\ uin.httpResponse.StatusCode = StatusNotFound
    /\ uin.responseBody \in Bodies
    /\ uout.err = ErrNotFound

\* C3: with a nil transport error, a status in [200, 300) and a nil body,
\* unpackResponse returns (nil, ErrNotFound).
C3_NilBodyIsNotFound ==
    (Unpacked /\ uin.err = NoErr /\ HasResp
        /\ Is2xx(uin.httpResponse.StatusCode) /\ uin.responseBody = NilPtr) =>
        uout = Ret(NilPtr, ErrNotFound)

C3_Witness ==
    /\ Unpacked /\ uin.err = NoErr /\ HasResp
    /\ uin.httpResponse.StatusCode = StatusMultipleChoices - 1
    /\ uin.responseBody = NilPtr
    /\ uout.err = ErrNotFound /\ uout.val = NilPtr

\* C4: with a nil transport error, a status in [200, 300) and a non-nil body
\* v, unpackResponse returns (v, nil).
C4_BodyReturned ==
    (Unpacked /\ uin.err = NoErr /\ HasResp
        /\ Is2xx(uin.httpResponse.StatusCode) /\ uin.responseBody # NilPtr) =>
        uout = Ret(uin.responseBody, NoErr)

C4_Witness ==
    /\ Unpacked /\ uin.err = NoErr /\ HasResp
    /\ uin.httpResponse.StatusCode = StatusOK + 1
    /\ uin.responseBody = "v2"
    /\ uout.val = "v2" /\ uout.err = NoErr

\* C5: with a nil transport error and a status outside [200, 300) other than
\* 404, unpackResponse returns (nil, err) where err is not ErrNotFound
\* (errors.Is is false) and err's text holds the response's status text,
\* whatever the body is.
C5_StatusError ==
    (Unpacked /\ uin.err = NoErr /\ HasResp
        /\ ~Is2xx(uin.httpResponse.StatusCode)
        /\ uin.httpResponse.StatusCode # StatusNotFound) =>
        /\ ~uout.panic
        /\ uout.val = NilPtr
        /\ uout.err # NoErr
        /\ ~ErrorsIs(uout.err, ErrNotFound)
        /\ MsgContains(uout.err, uin.httpResponse.Status)

C5_Witness ==
    /\ Unpacked /\ uin.err = NoErr /\ HasResp
    /\ uin.httpResponse.StatusCode = 500
    /\ uin.httpResponse.Status = "500 Internal Server Error"
    /\ uin.responseBody \in Bodies
    /\ MsgContains(uout.err, "500 Internal Server Error")
    /\ uout.val = NilPtr

(***************************************************************************)
(* Service Facade: properties                                              *)
(***************************************************************************)
Returned(p) == calls[p].pc = "returned"
Sent(p) == calls[p].pc \in {"inflight", "returned"}

\* C6: when the Endpoint Client operation returns a transport error e, the
\* facade method returns what unpackResponse gives for that outcome:
\* (nil, err) with Unwrap(err) = e and the "client execution error" context.
C6_FacadeWrapsTransportError ==
    \A p \in Callers :
        (Returned(p) /\ calls[p].out.err # NoErr) =>
            /\ calls[p].ret = unpackResponse(NilPtr, calls[p].out.resp, calls[p].out.err)
            /\ Unwrap(calls[p].ret.err) = calls[p].out.err
            /\ calls[p].ret.err.msg[1] = "client execution error: "

\* C7: a facade call invokes the Endpoint Client exactly once and returns
\* one of (non-nil value, nil), (nil, ErrNotFound), (nil, another error):
\* never (nil, nil), never a value together with an error.
C7_OneRequestOneOutcome ==
    \A p \in Callers :
        /\ Sent(p) => calls[p].requests = 1
        /\ Returned(p) =>
            /\ ~calls[p].ret.panic
            /\ \/ calls[p].ret.val # NilPtr /\ calls[p].ret.err = NoErr
               \/ calls[p].ret.val = NilPtr /\ calls[p].ret.err = ErrNotFound
               \/ /\ calls[p].ret.val = NilPtr
                  /\ calls[p].ret.err # NoErr
                  /\ calls[p].ret.err # ErrNotFound

C7_Witness ==
    \E p \in Callers :
        /\ Returned(p)
        /\ calls[p].out.err = NoErr
        /\ calls[p].out.resp.JSON200 = NilPtr
        /\ calls[p].out.resp.HTTPResponse.StatusCode = StatusOK
        /\ calls[p].ret = Ret(NilPtr, ErrNotFound)
        /\ calls[p].requests = 1

\* C8: every request a constructed client issues carries X-API-Key equal to
\* NewClient's apiKey, whatever the options were and whatever the header
\* held before.
C8_AuthHeaderOnEveryRequest ==
    /\ wire \subseteq {<<apiKey>>}
    /\ \A p \in Callers :
          Sent(p) =>
            /\ HeaderGet(calls[p].req.Header, apiKeyHeader) = apiKey
            /\ calls[p].req.Header[apiKeyHeader] = <<apiKey>>

C8_Witness ==
    \E p \in Callers :
        /\ Returned(p)
        /\ opts = <<[kind |-> "WithHTTPClient", customClient |-> "c2"]>>
        /\ apiKey = "key2"
        /\ calls[p].built.Header[apiKeyHeader] = <<"stale">>
        /\ calls[p].method[1] = "Status"
        /\ wire = {<<"key2">>}

(***************************************************************************)
(* NewClient: properties                                                   *)
(***************************************************************************)
Front(sq) == SubSeq(sq, 1, Len(sq) - 1)
Last(sq) == sq[Len(sq)]

\* The settings read off an option list from its end: the last option that
\* touches a field decides it.
RECURSIVE LastBaseURL(_)
LastBaseURL(os) ==
    IF os = <<>> THEN defaultBaseURL
    ELSE IF Last(os).kind = "WithBaseURL" THEN Last(os).url
    ELSE LastBaseURL(Front(os))

RECURSIVE LastTimeout(_)
LastTimeout(os) ==
    IF os = <<>> THEN DefaultTimeout
    ELSE IF Last(os).kind = "WithTimeout" THEN Last(os).timeout
    ELSE IF Last(os).kind = "WithHTTPClient" THEN heap[Last(os).customClient].Timeout
    ELSE LastTimeout(Front(os))

RECURSIVE LastTransport(_)
LastTransport(os) ==
    IF os = <<>> THEN DefaultTransport
    ELSE IF Last(os).kind = "WithHTTPClient" THEN heap[Last(os).customClient].Transport
    ELSE LastTransport(Front(os))

Built == pc = "returned" /\ nc.client # NilClient

\* C9: the base URL and HTTP client settings of a constructed client are the
\* options applied in order over the defaults: the last WithBaseURL decides
\* the base URL (the default without one), the last of WithTimeout and
\* WithHTTPClient decides the timeout (30s without one), the last
\* WithHTTPClient decides the transport.
C9_OptionsInOrder ==
    Built =>
        /\ nc.client.internalClient.Server = LastBaseURL(opts)
        /\ nc.client.internalClient.Client.Timeout = LastTimeout(opts)
        /\ nc.client.internalClient.Client.Transport = LastTransport(opts)
        /\ opts = <<>> =>
              /\ nc.client.internalClient.Server = defaultBaseURL
              /\ nc.client.internalClient.Client.Timeout = DefaultTimeout

C9_Witness ==
    /\ Built
    /\ opts = <<[kind |-> "WithTimeout", timeout |-> 5],
                [kind |-> "WithHTTPClient", customClient |-> "c2"]>>
    /\ nc.client.internalClient.Client = [Timeout |-> 7, Transport |-> "stub2"]

\* The first option that stops the loop, 0 if none does.
Stops(opt) ==
    \/ opt.kind = "Failing"
    \/ opt.kind = "WithHTTPClient" /\ opt.customClient = NilPtr
FirstStop(os) ==
    IF \E i \in 1..Len(os) : Stops(os[i])
    THEN CHOOSE i \in 1..Len(os) : Stops(os[i]) /\ \A j \in 1..(i - 1) : ~Stops(os[j])
    ELSE 0
OptionFailedAt(k) ==
    pc = "returned" /\ k = FirstStop(opts) /\ k > 0 /\ opts[k].kind = "Failing"

\* C10: if the k-th option reports an error e, NewClient returns (nil, err)
\* with Unwrap(err) = e; options 1..k ran and none after, no Endpoint Client
\* was created, and the discarded configuration holds options 1..k-1.
C10_OptionErrorAborts ==
    \A k \in 1..Len(opts) :
        OptionFailedAt(k) =>
            /\ ~nc.panic
            /\ nc.client = NilClient
            /\ nc.err # NoErr
            /\ Unwrap(nc.err) = opts[k].err
            /\ nc.err.msg[1] = "failed to apply option: "
            /\ nc.invoked = [i \in 1..k |-> i]
            /\ nc.genCalls = 0
            /\ nc.cfg.baseURL = LastBaseURL(SubSeq(opts, 1, k - 1))
            /\ nc.cfg.httpClient.Timeout = LastTimeout(SubSeq(opts, 1, k - 1))
            /\ nc.cfg.httpClient.Transport = LastTransport(SubSeq(opts, 1, k - 1))

C10_Witness ==
    /\ OptionFailedAt(2)
    /\ opts = <<[kind |-> "WithBaseURL", url |-> "http://b"],
                [kind |-> "Failing", err |-> errOpt],
                [kind |-> "WithTimeout", timeout |-> 9]>>
    /\ nc.invoked = <<1, 2>>
    /\ nc.cfg.baseURL = "http://b"
    /\ nc.cfg.httpClient.Timeout = DefaultTimeout
    /\ Unwrap(nc.err) = errOpt

(***************************************************************************)
(* Concurrent use: properties                                              *)
(***************************************************************************)
\* The Client as its callers see it: the Endpoint Client handle, the facade
\* references, the API key and the base URL.
ClientState == <<nc, apiKey>>
FacadesShareEndpointClient ==
    /\ nc.client.common.client = "c"
    /\ \A f \in Facades : nc.client.services[f] = "&c.common"
    /\ \A p \in ConcCallers :
          calls[p].pc \in {"inflight", "returned"} =>
            /\ calls[p].req.server = nc.client.internalClient.Server
            /\ calls[p].req.Header[apiKeyHeader] =
                  <<nc.client.internalClient.RequestEditors[1].apiKey>>

\* C11: under any interleaving of facade calls by several callers on one
\* Client, no call changes the Client's state, every facade keeps referring
\* to the one shared Endpoint Client, a step of one call leaves the other
\* calls as they were, and what a call returns is what the facade makes of
\* that call's own endpoint outcome.
C11_ConcurrentCallsIndependent ==
    [][pc = "returned" =>
        /\ ClientState' = ClientState
        /\ nc.client # NilClient => FacadesShareEndpointClient'
        /\ \A p \in ConcCallers :
              /\ calls'[p].pc = "returned" =>
                    calls'[p].ret = FacadeReturn(calls'[p].out.resp, calls'[p].out.err)
              /\ calls'[p] # calls[p] =>
                    \A q \in ConcCallers \ {p} : calls'[q] = calls[q]]_vars

C11_Witness ==
    /\ pc = "returned" /\ nc.client # NilClient
    /\ calls[1].pc = "returned" /\ calls[2].pc = "returned"
    /\ calls[1].method[1] = "Online" /\ calls[2].method[1] = "Player"
    /\ calls[1].out.err = errCanceled /\ calls[1].ret = Ret(NilPtr, errCanceled)
    /\ calls[2].out.err = NoErr /\ calls[2].ret = Ret("v1", NoErr)

(***************************************************************************)
(* The caller's http.Client: properties                                    *)
(***************************************************************************)
\* The HTTP client settings the constructed Client works with.
EffectiveHTTPClient ==
    IF pc = "returned" /\ nc.client # NilClient
    THEN nc.client.internalClient.Client
    ELSE [id |-> "none"]

\* C12: WithHTTPClient copies the caller's client: NewClient leaves every
\* client of the caller as it was, whatever the option list (a WithTimeout
\* after WithHTTPClient included), and a timeout or transport the caller
\* stores in its client afterwards does not reach the constructed Client.
C12_CustomClientCopied ==
    [][/\ pc = "start" => (heap' = heap /\ nc'.heap = CustomHeap)
       /\ pc = "returned" => EffectiveHTTPClient' = EffectiveHTTPClient]_vars

C12_Witness ==
    /\ pc = "returned" /\ nc.client # NilClient
    /\ opts = <<[kind |-> "WithHTTPClient", customClient |-> "c2"],
                [kind |-> "WithTimeout", timeout |-> 5]>>
    /\ nc.heap["c2"] = [Timeout |-> 7, Transport |-> "stub2"]
    /\ heap["c2"] = [Timeout |-> 1, Transport |-> "other"]
    /\ EffectiveHTTPClient = [Timeout |-> 5, Transport |-> "stub2"]

====
